---- MODULE Spec2Model ----
(***************************************************************************)
(* AskMyPDF (src/app.py): a Streamlit script that is re-executed from top  *)
(* to bottom on every widget interaction.  One action of the model is one  *)
(* script run, triggered by one interaction.  Text is modelled as a        *)
(* sequence of one-character strings, so that replace/split/strip/join     *)
(* compute what the Python string methods compute.                         *)
(***************************************************************************)
EXTENDS Integers, Sequences, FiniteSets, TLC

VARIABLES
    uploaded_files,   \* value of st.file_uploader: sequence of uploaded files
    model,            \* value of the "Model" selectbox
    session_state,    \* st.session_state: function from its keys to values
    cache,            \* the memoised embed_files result (NoIndex when none)
    rendered,         \* TRUE iff the last run rendered Reset Chat and chat_input
    last,             \* record of what the last script run did
    arg,              \* argument of the pure function under test
    ret               \* its return value

vars == <<uploaded_files, model, session_state, cache, rendered, last, arg, ret>>

appvars == <<uploaded_files, model, session_state, cache, rendered, last>>

(***************************************************************************)
(* Bounds of the model.                                                    *)
(***************************************************************************)
MaxFiles == 2        \* files in one upload set

MaxQuestions == 2    \* user turns in the history

MaxPieces == 4       \* pieces a model response is assembled from

MaxSources == 4      \* retrieved sources of one query result

(***************************************************************************)
(* Program constants.                                                      *)
(***************************************************************************)
EMBEDDING == "openai"

VECTOR_STORE == "faiss"

MODEL_LIST == <<"gpt-4o", "gpt-4-turbo", "gpt-4", "gpt-3.5-turbo">>

chunk_size == 300

chunk_overlap == 0

None == "None"

(***************************************************************************)
(* Python string methods on sequences of characters.                       *)
(***************************************************************************)
Whitespace == {" ", "\n", "\t"}

SOURCES == <<"S", "O", "U", "R", "C", "E", "S", ":">>

StartsWith(s, pat) ==
    /\ Len(pat) <= Len(s)
    /\ SubSeq(s, 1, Len(pat)) = pat

\* str.replace(old, new): leftmost, non-overlapping occurrences
RECURSIVE replace(_, _, _)
replace(s, old, new) ==
    IF s = <<>> THEN <<>>
    ELSE IF StartsWith(s, old)
         THEN new \o replace(SubSeq(s, Len(old) + 1, Len(s)), old, new)
         ELSE <<Head(s)>> \o replace(Tail(s), old, new)

\* str.find(sep): 1-based index of the first occurrence, 0 when there is none
find(s, sep) ==
    LET hits == {i \in 1..Len(s) : StartsWith(SubSeq(s, i, Len(s)), sep)}
    IN IF hits = {} THEN 0 ELSE CHOOSE i \in hits : \A j \in hits : i <= j

\* str.split(sep): the list of the parts between the occurrences of sep
RECURSIVE split(_, _)
split(s, sep) ==
    LET i == find(s, sep)
    IN IF i = 0 THEN <<s>>
       ELSE <<SubSeq(s, 1, i - 1)>> \o split(SubSeq(s, i + Len(sep), Len(s)), sep)

RECURSIVE lstrip(_)
lstrip(s) ==
    IF s # <<>> /\ Head(s) \in Whitespace THEN lstrip(Tail(s)) ELSE s

RECURSIVE rstrip(_)
rstrip(s) ==
    IF s # <<>> /\ s[Len(s)] \in Whitespace
    THEN rstrip(SubSeq(s, 1, Len(s) - 1)) ELSE s

\* str.strip()
strip(s) == rstrip(lstrip(s))

\* a plausible slip: the text before the marker is returned without .strip()
extract_answer_unstripped(result_answer) ==
    LET normalized_1 == replace(result_answer, <<"\n">> \o SOURCES, <<" ">> \o SOURCES)
        normalized_answer == replace(normalized_1, SOURCES \o <<"\n">>, SOURCES \o <<" ">>)
    IN split(normalized_answer, SOURCES)[1]

\* def extract_answer_without_sources(result_answer)
extract_answer_without_sources(result_answer) ==
    LET normalized_1 == replace(result_answer, <<"\n">> \o SOURCES, <<" ">> \o SOURCES)
        normalized_answer == replace(normalized_1, SOURCES \o <<"\n">>, SOURCES \o <<" ">>)
    IN strip(split(normalized_answer, SOURCES)[1])

(***************************************************************************)
(* Citation list (src/app.py lines 137-138).  A source's page metadata is  *)
(* an int or a string of decimal digits; int() coerces both.               *)
(***************************************************************************)
Digits == <<"0", "1", "2", "3", "4", "5", "6", "7", "8", "9">>

IntPage(n) == [t |-> "int", n |-> n, s |-> <<>>]

StrPage(s) == [t |-> "str", n |-> 0, s |-> s]

DigitValue(c) == (CHOOSE d \in 1..10 : Digits[d] = c) - 1

RECURSIVE ParseDigits(_)
ParseDigits(s) ==
    IF s = <<>> THEN 0
    ELSE 10 * ParseDigits(SubSeq(s, 1, Len(s) - 1)) + DigitValue(s[Len(s)])

\* int(source.metadata["page"])
int(page) == IF page.t = "int" THEN page.n ELSE ParseDigits(page.s)

\* str(n) for n >= 0
RECURSIVE str(_)
str(n) ==
    IF n < 10 THEN <<Digits[n + 1]>>
    ELSE str(n \div 10) \o <<Digits[(n % 10) + 1]>>

\* sorted(S) of a set of integers: ascending list of its elements
RECURSIVE sorted(_)
sorted(S) ==
    IF S = {} THEN <<>>
    ELSE LET m == CHOOSE x \in S : \A y \in S : x <= y
         IN <<m>> \o sorted(S \ {m})

\* sep.join(parts)
RECURSIVE join(_, _)
join(sep, parts) ==
    IF parts = <<>> THEN <<>>
    ELSE IF Len(parts) = 1 THEN parts[1]
    ELSE parts[1] \o sep \o join(sep, Tail(parts))

\* a plausible slip: the pages are coerced and rendered in retrieval order
pages_unsorted(sources) == [i \in DOMAIN sources |-> int(sources[i])]

\* pages = sorted(set(int(source.metadata["page"]) for source in result.sources))
pages_of(sources) == sorted({int(sources[i]) : i \in DOMAIN sources})

\* sources = ", ".join(map(str, pages))
citation(sources) ==
    LET pages == pages_of(sources)
    IN join(<<",", " ">>, [i \in DOMAIN pages |-> str(pages[i])])

(***************************************************************************)
(* Collaborators of app.py that it imports from ui and core.               *)
(***************************************************************************)
Files == {"report.txt", "scan.pdf", "broken.pdf"}

\* read_file raises for a file it cannot parse
read_raises(uploaded_file) == uploaded_file = "broken.pdf"

\* read_file(uploaded_file): the document, with the length of its extracted text
read_file(uploaded_file) ==
    [name |-> uploaded_file,
     text_len |-> IF uploaded_file = "scan.pdf" THEN 0 ELSE 8]

\* chunk_file(file, chunk_size=300, chunk_overlap=0)
chunk_file(file) ==
    [name |-> file.name,
     text_len |-> file.text_len,
     chunks |-> (file.text_len + (chunk_size - chunk_overlap) - 1)
                    \div (chunk_size - chunk_overlap)]

\* is_file_valid(file): a document whose extracted text is empty is rejected
is_file_valid(file) == file.text_len > 0

NoIndex == [files |-> <<>>, embedding |-> None, vector_store |-> None]

\* the memoised embed_files returns the index it has for the same arguments
cache_hit(c, key) ==
    /\ c # NoIndex
    /\ c.files = key.files
    /\ c.embedding = key.embedding
    /\ c.vector_store = key.vector_store

(***************************************************************************)
(* The script, top to bottom.                                              *)
(***************************************************************************)
INITIAL_MESSAGE ==
    <<[role |-> "assistant",
       content |-> <<"Hello! I'm here to assist with any questions you have about the uploaded documents. How can I help you today?">>]>>

SpanOpen == "<span style=\"color:grey; font-size: small; font-style: italic;\">The information was found on the following pages: "

SpanClose == ".</span>"

Indent == <<" ", " ", " ", " ", " ", " ", " ", " ">>

\* lines 64-70: the files that were read without an exception, in upload order
read_loop(ups) ==
    LET ok == SelectSeq(ups, LAMBDA f : ~read_raises(f))
    IN [i \in DOMAIN ok |-> read_file(ok[i])]

\* a plausible slip: the arguments of embed_files leave the documents out
embed_args_without_files(chunked_files, mdl) ==
    [files |-> <<>>,
     embedding |-> IF mdl # "debug" THEN EMBEDDING ELSE "debug",
     vector_store |-> IF mdl # "debug" THEN VECTOR_STORE ELSE "debug"]

\* lines 81-86: the arguments embed_files is called with
embed_args(chunked_files, mdl) ==
    [files |-> chunked_files,
     embedding |-> IF mdl # "debug" THEN EMBEDDING ELSE "debug",
     vector_store |-> IF mdl # "debug" THEN VECTOR_STORE ELSE "debug"]

\* a plausible slip: the run goes on without the is_file_valid check
guards_without_validation(ups, keyValid) ==
    LET files == read_loop(ups)
    IN IF ups = <<>> THEN "stop_no_upload"
       ELSE IF files = <<>> THEN "name_error"
       ELSE IF ~keyValid THEN "stop_invalid_key"
       ELSE "embed"

\* lines 60-78: where the run stops before embed_files, or "embed"
guards(ups, keyValid) ==
    LET files == read_loop(ups)
    IN IF ups = <<>> THEN "stop_no_upload"
       ELSE IF files = <<>> THEN "name_error"
       ELSE IF ~is_file_valid(files[Len(files)]) THEN "stop_invalid_file"
       ELSE IF ~keyValid THEN "stop_invalid_key"
       ELSE "embed"

\* a plausible slip: Reset Chat clears the keys but keeps the old messages
reset_keeping_messages(ss) ==
    IF "messages" \in DOMAIN ss
    THEN ("messages" :> ss["messages"]) @@ ("history" :> <<>>)
    ELSE ("messages" :> INITIAL_MESSAGE) @@ ("history" :> <<>>)

\* lines 102-106: the Reset Chat handler
reset_chat(ss) ==
    ("messages" :> INITIAL_MESSAGE) @@ ("history" :> <<>>)

\* lines 108-109
init_messages(ss) ==
    IF "messages" \in DOMAIN ss THEN ss ELSE ss @@ ("messages" :> INITIAL_MESSAGE)

\* a plausible slip: the citation line is appended whatever the sources are
format_answer_always_cited(result) ==
    <<"\n">> \o Indent \o result.answer \o <<"\n">> \o Indent \o <<"\n">> \o Indent
        \o <<SpanOpen>> \o citation(result.sources) \o <<SpanClose>> \o <<"\n">> \o Indent

\* a plausible slip: the response is committed as the model returned it
format_answer_raw(result) ==
    LET sources == citation(result.sources)
    IN IF sources # <<>>
       THEN <<"\n">> \o Indent \o result.answer \o <<"\n">> \o Indent \o <<"\n">> \o Indent
                \o <<SpanOpen>> \o sources \o <<SpanClose>> \o <<"\n">> \o Indent
       ELSE result.answer

\* lines 137-146: the content of the assistant turn
format_answer(result) ==
    LET sources == citation(result.sources)
    IN IF sources # <<>>
       THEN <<"\n">> \o Indent \o result.answer \o <<"\n">> \o Indent \o <<"\n">> \o Indent
                \o <<SpanOpen>> \o sources \o <<SpanClose>> \o <<"\n">> \o Indent
       ELSE extract_answer_without_sources(result.answer)

\* lines 123-148: the chat block; outcome.ok is FALSE when get_llm or
\* query_folder raises, which ends the run at that line
chat(ss, query, outcome) ==
    LET asked == [ss EXCEPT !["messages"] =
                      Append(@, [role |-> "user", content |-> query])]
    IN IF ~outcome.ok THEN asked
       ELSE [asked EXCEPT !["messages"] =
                 Append(@, [role |-> "assistant", content |-> format_answer(outcome)])]

(***************************************************************************)
(* Inputs of a run: what the user does and what the services answer.       *)
(***************************************************************************)
\* an upload set: distinct files, in upload order
UploadSets ==
    {u \in UNION {[1..n -> Files] : n \in 0..MaxFiles} :
        \A i, j \in DOMAIN u : i # j => u[i] # u[j]}

Queries == {<<"w", "h", "y", "?">>}

NoQuery == <<>>

Answers ==
    { <<" ", "o", "k", ".", "\n">>,
      <<"o", "k", ".", "\n">> \o SOURCES \o <<"\n", "p", "1">> }

SourceLists == { <<>>, <<IntPage(3), IntPage(1), IntPage(3), IntPage(2)>> }

NoResult == [ok |-> FALSE, answer |-> <<>>, sources |-> <<>>]

Outcomes ==
    {NoResult} \cup {[ok |-> TRUE, answer |-> a, sources |-> s] : a \in Answers, s \in SourceLists}

UserTurns(ss) ==
    IF "messages" \in DOMAIN ss
    THEN Cardinality({i \in DOMAIN ss["messages"] : ss["messages"][i].role = "user"})
    ELSE 0

NoArg == [fn |-> "none", val |-> <<>>]

NoRet == [done |-> FALSE, val |-> <<>>]

(***************************************************************************)
(* One script run (src/app.py lines 24-161).  ups and mdl are the widget   *)
(* values of this run, click and query the Reset Chat button and the chat  *)
(* input; keyValid, embedOk and outcome are the answers of                 *)
(* is_open_ai_key_valid, of the embedding provider and of the language     *)
(* model.  st.stop() and an uncaught exception both end the run and keep   *)
(* what was written to st.session_state before.                            *)
(***************************************************************************)
\* lines 94-148 of a run that got its folder index
page(ss, click, query, outcome) ==
    LET ss1 == IF click THEN reset_chat(ss) ELSE ss
        ss2 == init_messages(ss1)
    IN IF query # NoQuery THEN chat(ss2, query, outcome) ELSE ss2

Run(op, ups, mdl, click, query, keyValid, embedOk, outcome) ==
    \E files \in {read_loop(ups)} :
    \E chunked_files \in {[i \in DOMAIN files |-> chunk_file(files[i])]} :
    \E stage \in {guards(ups, keyValid)} :
    \E key \in {embed_args(chunked_files, mdl)} :
    \E hit \in {cache_hit(cache, key)} :
    \E called \in {stage = "embed"} :
    \E built \in {called /\ ~hit /\ embedOk} :
    \E reached \in {called /\ (hit \/ embedOk)} :
    \E folder_index \in {IF ~reached THEN NoIndex ELSE IF hit THEN cache ELSE key} :
       \* a service that the run does not call gives no answer to choose
       /\ guards(ups, TRUE) # "embed" => keyValid
       /\ (~called \/ hit) => embedOk
       /\ (~reached \/ query = NoQuery) => outcome = NoResult
       /\ uploaded_files' = ups
       /\ model' = mdl
       /\ cache' = IF built THEN folder_index ELSE cache
       /\ session_state' =
              IF reached THEN page(session_state, click, query, outcome)
              ELSE session_state
       /\ rendered' = reached
       /\ last' = [op |-> op,
                   stage |-> IF ~called THEN stage
                             ELSE IF ~reached THEN "embed_failed"
                             ELSE IF query # NoQuery /\ ~outcome.ok THEN "query_failed"
                             ELSE "done",
                   handed |-> IF called THEN chunked_files ELSE <<>>,
                   called |-> called, built |-> built,
                   folder_index |-> folder_index,
                   query |-> IF reached THEN query ELSE NoQuery,
                   result |-> IF reached /\ query # NoQuery THEN outcome ELSE NoResult]
       /\ UNCHANGED <<arg, ret>>

\* the user changes the upload set
Upload ==
    \E ups \in UploadSets, keyValid \in BOOLEAN, embedOk \in BOOLEAN :
        /\ ups # uploaded_files
        /\ Run("widget", ups, model, FALSE, NoQuery, keyValid, embedOk, NoResult)

\* the user picks another model
SelectModel ==
    \E i \in DOMAIN MODEL_LIST, keyValid \in BOOLEAN, embedOk \in BOOLEAN :
        /\ MODEL_LIST[i] # model
        /\ Run("widget", uploaded_files, MODEL_LIST[i], FALSE, NoQuery, keyValid, embedOk, NoResult)

\* the user toggles one of the two checkboxes (they change only what is displayed)
ToggleOption ==
    \E keyValid \in BOOLEAN, embedOk \in BOOLEAN :
        Run("widget", uploaded_files, model, FALSE, NoQuery, keyValid, embedOk, NoResult)

\* the user clicks Reset Chat, which the previous run rendered
ResetChat ==
    \E keyValid \in BOOLEAN, embedOk \in BOOLEAN :
        /\ rendered
        /\ Run("reset", uploaded_files, model, TRUE, NoQuery, keyValid, embedOk, NoResult)

\* the user submits a question in the chat input, which the previous run rendered
Ask ==
    \E query \in Queries, keyValid \in BOOLEAN, embedOk \in BOOLEAN, outcome \in Outcomes :
        /\ rendered
        /\ UserTurns(session_state) < MaxQuestions
        /\ Run("ask", uploaded_files, model, FALSE, query, keyValid, embedOk, outcome)

Next == Upload \/ SelectModel \/ ToggleOption \/ ResetChat \/ Ask

(***************************************************************************)
(* The two pure computations of the chat block, applied to inputs drawn    *)
(* from bounded sets.  The session does not move in these specifications.  *)
(***************************************************************************)
Pieces ==
    { <<"a">>, <<" ">>, <<"\n">>, SOURCES,
      <<"S", "O", "U", "R", "C", "E", "S">>, <<":">> }

CatSat ==
    <<"T", "h", "e", " ", "c", "a", "t", " ", "s", "a", "t", ".">>

CatSatResponse ==
    CatSat \o <<"\n">> \o SOURCES
        \o <<"\n", "d", "o", "c", ".", "p", "d", "f", " ", "p", "a", "g", "e", " ", "1">>

\* model responses: up to MaxPieces pieces in a row, and the documented example
Responses ==
    {join(<<>>, p) : p \in UNION {[1..n -> Pieces] : n \in 0..MaxPieces}}
        \cup {CatSatResponse}

PageValues ==
    { IntPage(1), IntPage(2), IntPage(3), IntPage(10),
      StrPage(<<"3">>), StrPage(<<"0", "2">>) }

\* the page metadata of the sources of one result, in retrieval order
PageLists == UNION {[1..n -> PageValues] : n \in 0..MaxSources}

SessionStart ==
    /\ uploaded_files = <<>>
    /\ model = MODEL_LIST[1]
    /\ session_state = [k \in {} |-> <<>>]
    /\ cache = NoIndex
    /\ rendered = FALSE
    /\ last = [op |-> "start", stage |-> "stop_no_upload", handed |-> <<>>,
               called |-> FALSE, built |-> FALSE, folder_index |-> NoIndex,
               query |-> NoQuery, result |-> NoResult]

\* the first run of a session: nothing is uploaded, the run stops at line 62
Init ==
    /\ SessionStart
    /\ arg = NoArg
    /\ ret = NoRet

Spec == Init /\ [][Next]_vars

InitExtract ==
    /\ SessionStart
    /\ arg \in {[fn |-> "extract_answer_without_sources", val |-> r] : r \in Responses}
    /\ ret = NoRet

CallExtract ==
    /\ arg.fn = "extract_answer_without_sources"
    /\ ~ret.done
    /\ ret' = [done |-> TRUE, val |-> extract_answer_without_sources(arg.val)]
    /\ UNCHANGED <<arg, appvars>>

SpecExtract == InitExtract /\ [][CallExtract]_vars

InitCitation ==
    /\ SessionStart
    /\ arg \in {[fn |-> "citation", val |-> l] : l \in PageLists}
    /\ ret = NoRet

CallCitation ==
    /\ arg.fn = "citation"
    /\ ~ret.done
    /\ ret' = [done |-> TRUE, val |-> citation(arg.val)]
    /\ UNCHANGED <<arg, appvars>>

SpecCitation == InitCitation /\ [][CallCitation]_vars

(***************************************************************************)
(* Vocabulary of the properties.                                           *)
(***************************************************************************)
MarkerAt(s, i) ==
    /\ i >= 1
    /\ i + Len(SOURCES) - 1 <= Len(s)
    /\ \A k \in 1..Len(SOURCES) : s[i + k - 1] = SOURCES[k]

HasMarker(s) == \E i \in 1..Len(s) : MarkerAt(s, i)

FirstMarker(s) ==
    CHOOSE i \in 1..Len(s) : MarkerAt(s, i) /\ \A j \in 1..(i - 1) : ~MarkerAt(s, j)

\* t is s without its leading and trailing whitespace
IsTrimOf(t, s) ==
    \E a \in 0..Len(s), b \in 0..Len(s) :
        /\ a <= b
        /\ t = SubSeq(s, a + 1, b)
        /\ \A k \in 1..a : s[k] \in Whitespace
        /\ \A k \in (b + 1)..Len(s) : s[k] \in Whitespace
        /\ t # <<>> => (t[1] \notin Whitespace /\ t[Len(t)] \notin Whitespace)

Messages == session_state["messages"]

HasHistory == "messages" \in DOMAIN session_state

LastTurn == Messages[Len(Messages)]

CompletedQuery == last.op = "ask" /\ last.stage = "done"

HasCitationLine(content) == \E i \in DOMAIN content : content[i] = SpanOpen

PageNumbers(sources) == {int(sources[i]) : i \in DOMAIN sources}

\* the last file of the upload set that read_file accepts (0: there is none)
LastReadable(ups) ==
    LET ok == {i \in DOMAIN ups : ~read_raises(ups[i])}
    IN IF ok = {} THEN 0 ELSE CHOOSE i \in ok : \A j \in ok : j <= i

\* the documents of the upload set that read_file accepts, chunked
Readable(ups) ==
    LET ok == SelectSeq(ups, LAMBDA f : ~read_raises(f))
    IN [i \in DOMAIN ok |-> chunk_file(read_file(ok[i]))]

Stopped(stage) ==
    stage \in {"stop_no_upload", "name_error", "stop_invalid_file",
               "stop_invalid_key", "embed_failed"}

(***************************************************************************)
(* C1: a failed query leaves the conversation history unmodified: in a run *)
(* where get_llm or query_folder fails, st.session_state after the run     *)
(* equals st.session_state before it.                                      *)
(***************************************************************************)
C1_FailedQueryLeavesHistory ==
    [][last'.stage = "query_failed" => session_state' = session_state]_vars

(***************************************************************************)
(* C2: the citation string lists each distinct page number exactly once,   *)
(* in strictly ascending numeric order, joined by ", "; it depends only on *)
(* the set of page numbers, not on the order or multiplicity of sources.   *)
(***************************************************************************)
C2_CitationSortedDistinct ==
    (ret.done /\ arg.fn = "citation") =>
        LET P == PageNumbers(arg.val)
        IN \E q \in [1..Cardinality(P) -> P] :
               /\ \A i, j \in DOMAIN q : i < j => q[i] < q[j]
               /\ ret.val = join(<<",", " ">>, [i \in DOMAIN q |-> str(q[i])])

C2_Witness ==
    /\ ret.done
    /\ arg.val = <<IntPage(3), IntPage(1), IntPage(3), IntPage(2)>>
    /\ ret.val = <<"1", ",", " ", "2", ",", " ", "3">>

(***************************************************************************)
(* C3: for a response that contains the marker SOURCES:, the extracted     *)
(* answer is the text before the first marker with leading and trailing    *)
(* whitespace removed; it contains no marker; and replacing the newline in *)
(* front of a marker by a space gives the same answer.                     *)
(***************************************************************************)
C3_ExtractBeforeMarker ==
    (ret.done /\ arg.fn = "extract_answer_without_sources" /\ HasMarker(arg.val)) =>
        /\ IsTrimOf(ret.val, SubSeq(arg.val, 1, FirstMarker(arg.val) - 1))
        /\ ~HasMarker(ret.val)
        /\ \A i \in 2..Len(arg.val) :
               (MarkerAt(arg.val, i) /\ arg.val[i - 1] = "\n") =>
                   extract_answer_without_sources([arg.val EXCEPT ![i - 1] = " "]) = ret.val

C3_Witness ==
    /\ ret.done
    /\ arg.val = CatSatResponse
    /\ ret.val = CatSat

(***************************************************************************)
(* C4: when the response has no SOURCES: marker and the result has no      *)
(* sources, the assistant turn committed to the history is the full        *)
(* response without its leading and trailing whitespace.                   *)
(***************************************************************************)
C4_NoMarkerNoSources ==
    (CompletedQuery /\ ~HasMarker(last.result.answer) /\ last.result.sources = <<>>) =>
        /\ LastTurn.role = "assistant"
        /\ IsTrimOf(LastTurn.content, last.result.answer)

C4_Witness ==
    /\ CompletedQuery
    /\ last.result.sources = <<>>
    /\ last.result.answer = <<" ", "o", "k", ".", "\n">>
    /\ LastTurn = [role |-> "assistant", content |-> <<"o", "k", ".">>]

(***************************************************************************)
(* C5: the assistant turn of a completed query contains the citation line  *)
(* if and only if the set of page numbers of result.sources is non-empty.  *)
(***************************************************************************)
C5_CitationIffSources ==
    CompletedQuery =>
        /\ LastTurn.role = "assistant"
        /\ HasCitationLine(LastTurn.content) <=> PageNumbers(last.result.sources) # {}

C5_Witness ==
    /\ CompletedQuery
    /\ PageNumbers(last.result.sources) = {1, 2, 3}
    /\ \E i \in DOMAIN LastTurn.content :
           SubSeq(LastTurn.content, i, i + 8)
               = <<SpanOpen, "1", ",", " ", "2", ",", " ", "3", SpanClose>>

(***************************************************************************)
(* C6: embed_files is only called when every document handed to it passes  *)
(* is_file_valid: no document with empty extracted text is embedded,       *)
(* whatever its position in the upload set.                                *)
(***************************************************************************)
C6_OnlyValidDocumentsEmbedded ==
    last.called => \A i \in DOMAIN last.handed : is_file_valid(last.handed[i])

C8_UploadChangeRebuilds ==
    [][ /\ (last'.called /\ uploaded_files' = uploaded_files /\ cache # NoIndex
                /\ cache.files = Readable(uploaded_files)) =>
               (~last'.built /\ last'.folder_index = cache)
        /\ (~Stopped(last'.stage) /\ uploaded_files' # uploaded_files) =>
               last'.built ]_vars

(***************************************************************************)
(* C8 as amended: a run that reaches embed_files reuses the cached index,  *)
(* without building, exactly when that index was built from the same       *)
(* successfully read documents and the same embedding and vector-store     *)
(* kinds; otherwise it attempts a new build, which replaces the index when *)
(* it succeeds and leaves it untouched when it fails.                      *)
(***************************************************************************)
C8_BuiltOncePerFingerprint ==
    [][ last'.called =>
            LET docs == Readable(uploaded_files')
                same == /\ cache # NoIndex
                        /\ cache.files = docs
                        /\ cache.embedding = EMBEDDING
                        /\ cache.vector_store = VECTOR_STORE
            IN /\ last'.handed = docs
               /\ same => /\ ~last'.built
                          /\ cache' = cache
                          /\ last'.folder_index = cache
               /\ ~same => \/ /\ last'.stage = "embed_failed"
                              /\ ~last'.built
                              /\ cache' = cache
                           \/ /\ last'.built
                              /\ cache'.files = docs
                              /\ cache'.embedding = EMBEDDING
                              /\ cache'.vector_store = VECTOR_STORE
                              /\ last'.folder_index = cache' ]_vars

C8_Witness ==
    /\ last.op = "ask"
    /\ last.stage = "done"
    /\ ~last.built
    /\ last.folder_index = cache
    /\ uploaded_files = <<"broken.pdf", "report.txt">>
    /\ cache.files = Readable(uploaded_files)

(***************************************************************************)
(* C9: the history starts with the initial greeting and then alternates    *)
(* user turn, assistant turn: no two consecutive turns have the same role  *)
(* and the history never ends with an unanswered user turn.                *)
(***************************************************************************)
C9_HistoryAlternates ==
    HasHistory =>
        /\ Messages[1] = INITIAL_MESSAGE[1]
        /\ \A i \in 1..(Len(Messages) - 1) : Messages[i].role # Messages[i + 1].role
        /\ LastTurn.role = "assistant"

(***************************************************************************)
(* C10: a question is accepted (a user turn is appended and query_folder   *)
(* is called) only in a run whose upload set is non-empty, in which a file *)
(* was read, is_file_valid and is_open_ai_key_valid returned true and      *)
(* embed_files returned a folder index; a run in which one of these steps  *)
(* stops or fails accepts no question and leaves the history unchanged.    *)
(***************************************************************************)
C10_QuestionOnlyAfterPipeline ==
    [][ LET ups == uploaded_files'
            passed == /\ ups # <<>>
                      /\ LastReadable(ups) # 0
                      /\ is_file_valid(read_file(ups[LastReadable(ups)]))
                      /\ last'.called
                      /\ last'.folder_index # NoIndex
        IN /\ (last'.query # NoQuery \/ UserTurns(session_state') # UserTurns(session_state))
                  => passed
           /\ ~passed => (session_state' = session_state /\ last'.query = NoQuery) ]_vars

C10_Witness ==
    /\ last.op = "ask"
    /\ last.stage = "stop_invalid_key"
    /\ last.query = NoQuery
    /\ HasHistory

====
